---- MODULE Spec2Model ----
(***************************************************************************)
(* Model of the FFmpeg.wasm front end: the useLoadFFmpeg hook (engine      *)
(* load), and the App component's handlers handleFileChange,               *)
(* handleExtractAudio and handleConvertToGif, which stage files in the     *)
(* engine's virtual filesystem, run exec stages, read the output back and  *)
(* delete the staged files.                                                *)
(*                                                                         *)
(* Every `await` of a handler is a point where the handler is suspended;   *)
(* one action of the model is the settling of the awaited call together    *)
(* with the synchronous code that follows it up to the next await.  State  *)
(* updates made in a React event handler are rendered before the next user *)
(* event is dispatched, so the rendered attributes (disabled, hidden) are  *)
(* functions of the current state.                                         *)
(***************************************************************************)
EXTENDS Integers, Sequences, FiniteSets, TLC

\* ------------------------------------------------------------------ bounds
MaxRuns == 2        \* handler invocations that get past their guard
MaxLoads == 3       \* loadFFmpeg invocations
MaxLen == 4         \* length of the lyrics texts explored by SpecEsc

Runs == 1..MaxRuns
Loads == 1..MaxLoads

\* ------------------------------------------------------------ text helpers
\* A text is a sequence of characters, each a one-character string; a
\* character outside ASCII is written as its code point ("U+793A").
QUOTE == "\""
NL == "\n"
BSL == "\\"
TAB == "\t"

WhiteSpace == {" ", NL, TAB}

RECURSIVE TrimStart(_)
TrimStart(s) ==
  IF s = <<>> THEN <<>>
  ELSE IF Head(s) \in WhiteSpace THEN TrimStart(Tail(s)) ELSE s

RECURSIVE TrimEnd(_)
TrimEnd(s) ==
  IF s = <<>> THEN <<>>
  ELSE IF s[Len(s)] \in WhiteSpace THEN TrimEnd(SubSeq(s, 1, Len(s) - 1)) ELSE s

\* String.prototype.trim
Trim(s) == TrimEnd(TrimStart(s))

\* String.prototype.replace(/c/g, rep)
RECURSIVE ReplaceAll(_, _, _)
ReplaceAll(s, c, rep) ==
  IF s = <<>> THEN <<>>
  ELSE (IF Head(s) = c THEN rep ELSE <<Head(s)>>) \o ReplaceAll(Tail(s), c, rep)

\* lrcContent.replace(/"/g, '\\"').replace(/\n/g, "\\n")
EscapeLyrics(s) == ReplaceAll(ReplaceAll(s, QUOTE, <<BSL, QUOTE>>), NL, <<BSL, "n">>)

\* The inverse of the two replacements: backslash-quote is a quote,
\* backslash-n is a newline, every other character stands for itself.
RECURSIVE UnescapeLyrics(_)
UnescapeLyrics(s) ==
  IF s = <<>> THEN <<>>
  ELSE IF Len(s) >= 2 /\ s[1] = BSL /\ s[2] = QUOTE
       THEN <<QUOTE>> \o UnescapeLyrics(SubSeq(s, 3, Len(s)))
  ELSE IF Len(s) >= 2 /\ s[1] = BSL /\ s[2] = "n"
       THEN <<NL>> \o UnescapeLyrics(SubSeq(s, 3, Len(s)))
  ELSE <<Head(s)>> \o UnescapeLyrics(Tail(s))

Range(s) == {s[i] : i \in 1..Len(s)}

\* s contains sub as a contiguous substring (String.prototype.includes)
Includes(s, sub) ==
  \E i \in 1..(Len(s) + 1) :
    i + Len(sub) - 1 <= Len(s) /\ SubSeq(s, i, i + Len(sub) - 1) = sub

\* "[00:SS.00]"
Stamp(d1, d2) == <<"[", "0", "0", ":", d1, d2, ".", "0", "0", "]">>

\* one line of the initial value of the lyrics state
SampleLine(d1, d2, ord) == Stamp(d1, d2) \o <<"U+793A", "U+4F8B", "U+6B4C", "U+8BCD", "U+7B2C", ord, "U+53E5">>

\* useState initial value of lyrics
DefaultLyrics ==
  SampleLine("0", "0", "U+4E00") \o <<NL>> \o SampleLine("0", "5", "U+4E8C") \o <<NL>>
    \o SampleLine("1", "0", "U+4E09") \o <<NL>> \o SampleLine("1", "5", "U+56DB")

Hello == <<"h", "e", "l", "l", "o">>
World == <<"w", "o", "r", "l", "d">>

\* "[00:00.00]hello\n[00:05.00]world"
ScenarioBLyrics == Stamp("0", "0") \o Hello \o <<NL>> \o Stamp("0", "5") \o World

\* the values the textarea is set to in the model
LyricsInputs ==
  { DefaultLyrics,
    <<" ", NL>>,
    ScenarioBLyrics }

\* the texts explored by SpecEsc
EscChars == {QUOTE, NL, BSL, "n", " "}
EscTexts == UNION { [1..n -> EscChars] : n \in 0..MaxLen }

\* ------------------------------------------------------- argument lists
\* An argument is a literal string or `${key}=${value}` with a text value.
Lit(s) == [kind |-> "lit", text |-> s, value |-> <<>>]
Meta(key, v) == [kind |-> "meta", text |-> key, value |-> v]

Lits(ss) == [i \in 1..Len(ss) |-> Lit(ss[i])]

\* stage 1 of handleExtractAudio: the cover frame
CoverArgs ==
  Lits(<<"-i", "input.mp4", "-ss", "0", "-vframes", "1", "-vf", "scale=500:-1", "cover.jpg">>)

\* A plausible slip: the guard tests lyrics instead of lyrics.trim().
AudioArgsUntrimmedGuard(lyr) ==
  Lits(<<"-i", "input.mp4", "-i", "cover.jpg", "-map", "0:a", "-map", "1",
         "-c:a", "libmp3lame", "-ab", "192k", "-c:v:1", "mjpeg",
         "-disposition:v:1", "attached_pic", "-id3v2_version", "3">>)
    \o (IF lyr # <<>>
        THEN << Lit("-metadata"), Meta("LYRICS", EscapeLyrics(Trim(lyr))),
                Lit("-metadata"), Meta("USLT", EscapeLyrics(Trim(lyr))) >>
        ELSE <<>>)
    \o <<Lit("output.mp3")>>

\* A plausible slip: the metadata arguments are pushed without the guard.
AudioArgsUnguarded(lyr) ==
  Lits(<<"-i", "input.mp4", "-i", "cover.jpg", "-map", "0:a", "-map", "1",
         "-c:a", "libmp3lame", "-ab", "192k", "-c:v:1", "mjpeg",
         "-disposition:v:1", "attached_pic", "-id3v2_version", "3">>)
    \o << Lit("-metadata"), Meta("LYRICS", EscapeLyrics(Trim(lyr))),
          Lit("-metadata"), Meta("USLT", EscapeLyrics(Trim(lyr))) >>
    \o <<Lit("output.mp3")>>

\* stage 2 of handleExtractAudio: the MP3 with cover and lyrics
AudioArgs(lyr) ==
  Lits(<<"-i", "input.mp4", "-i", "cover.jpg", "-map", "0:a", "-map", "1",
         "-c:a", "libmp3lame", "-ab", "192k", "-c:v:1", "mjpeg",
         "-disposition:v:1", "attached_pic", "-id3v2_version", "3">>)
    \o (IF Trim(lyr) # <<>>
        THEN << Lit("-metadata"), Meta("LYRICS", EscapeLyrics(Trim(lyr))),
                Lit("-metadata"), Meta("USLT", EscapeLyrics(Trim(lyr))) >>
        ELSE <<>>)
    \o <<Lit("output.mp3")>>

\* A plausible slip: the clip window is left out and the whole video is converted.
GifArgsWholeClip ==
  Lits(<<"-i", "input.mp4", "-vf", "fps=10,scale=320:-1", "output.gif">>)

\* handleConvertToGif
GifArgs ==
  Lits(<<"-i", "input.mp4", "-t", "5.0", "-ss", "0.0", "-vf", "fps=10,scale=320:-1", "output.gif">>)

\* ------------------------------------------------------------------ state
VARIABLES
  mounted,            \* the component has rendered and its effects have run
  autoLoad,           \* Options.autoLoad of useLoadFFmpeg
  origin,             \* the origin of the page, part of every object URL
  hookLoading,        \* useLoadFFmpeg: const [loading, setLoading] = useState(false)
  engine,             \* state of the FFmpeg instance held by ffmpegRef
  lpc,                \* position of each loadFFmpeg invocation
  loadCalls,          \* number of ffmpeg.load calls issued
  logListeners,       \* listeners registered with ffmpeg.on("log", ...)
  progressListeners,  \* listeners registered with ffmpeg.on("progress", ...)
  videoFile,          \* App: videoFile state
  lyrics,             \* App: lyrics state
  loading,            \* App: loading state
  message,            \* App: message state
  outputUrl,          \* App: outputUrl state (0 is null, r is the URL of run r's blob)
  pc,                 \* position of each handler invocation
  pipeline,           \* which handler the invocation is
  runFile,            \* videoFile captured by the invocation's closure
  runLyrics,          \* lyrics in the closure of a running handleExtractAudio invocation
  execArgs,           \* the argument list of the invocation's pending ffmpeg.exec call
  exits,              \* the values its ffmpeg.exec calls resolved to
  result,             \* the Blob the invocation created
  status,             \* what the invocation last reported through setMessage
  vfs                 \* the engine's virtual filesystem

hookVars == <<mounted, autoLoad, origin, hookLoading, engine, lpc, loadCalls, logListeners, progressListeners>>
appVars == <<videoFile, lyrics, loading, message, outputUrl>>
runVars == <<pc, pipeline, runFile, runLyrics, execArgs, exits, result, status, vfs>>
vars == <<hookVars, appVars, runVars>>

\* "http://localhost:5173", the origin of the vite dev server
LocalOrigin ==
  <<"h", "t", "t", "p", ":", "/", "/", "l", "o", "c", "a", "l", "h", "o", "s", "t",
    ":", "5", "1", "7", "3">>

\* "https://a.mp3.io", an origin whose host name contains ".mp3"
Mp3Origin ==
  <<"h", "t", "t", "p", "s", ":", "/", "/", "a", ".", "m", "p", "3", ".", "i", "o">>

\* the origins the page is served from in the model
Origins == {LocalOrigin, Mp3Origin}

\* the UUID of the object URL of run r's blob: hexadecimal digits and hyphens
Uuid(r) == <<"0", "0", "0", "0", "-", "4", "0", "0", "0", "-", "8", "0", "0", ToString(r)>>

\* URL.createObjectURL(blob): "blob:" + origin + "/" + UUID
ObjectURL(r) == <<"b", "l", "o", "b", ":">> \o origin \o <<"/">> \o Uuid(r)

NoFile == "null"
Files == {"a.mp4"}

FileNames == {"input.mp4", "cover.jpg", "output.mp3", "output.gif"}

\* a name that is not in the filesystem
Absent == [by |-> 0, bytes |-> "none", cover |-> 0]
\* a file written by run r; cover is the run whose cover.jpg was embedded
FileOf(r, b, c) == [by |-> r, bytes |-> b, cover |-> c]

NoBlob == [mime |-> "none", bytes |-> "none", by |-> 0, cover |-> 0]

Init ==
  /\ mounted = FALSE
  /\ autoLoad = TRUE
  /\ origin \in Origins
  /\ hookLoading = FALSE
  /\ engine = "Uninitialized"
  /\ lpc = [l \in Loads |-> "idle"]
  /\ loadCalls = 0
  /\ logListeners = 0
  /\ progressListeners = 0
  /\ videoFile = NoFile
  /\ lyrics = DefaultLyrics
  /\ loading = FALSE
  /\ message = ""
  /\ outputUrl = 0
  /\ pc = [r \in Runs |-> "idle"]
  /\ pipeline = [r \in Runs |-> "none"]
  /\ runFile = [r \in Runs |-> NoFile]
  /\ runLyrics = [r \in Runs |-> <<>>]
  /\ execArgs = [r \in Runs |-> <<>>]
  /\ exits = [r \in Runs |-> <<>>]
  /\ result = [r \in Runs |-> NoBlob]
  /\ status = [r \in Runs |-> "none"]
  /\ vfs = [n \in FileNames |-> Absent]

\* ------------------------------------------------------- useLoadFFmpeg
\* the first invocation of loadFFmpeg that has not been made yet
NextLoad(l) == lpc[l] = "idle" /\ \A k \in Loads : k < l => lpc[k] # "idle"

\* loadFFmpeg up to its first await: setLoading(true), the two ffmpeg.on
\* registrations, and the call of toBlobURL(coreURL)
LoadFFmpegBegin(l) ==
  /\ hookLoading' = TRUE
  /\ logListeners' = logListeners + 1
  /\ progressListeners' = progressListeners + 1
  /\ lpc' = [lpc EXCEPT ![l] = "coreURL"]
  /\ UNCHANGED <<engine, loadCalls>>

\* first render and the effect: if (autoLoad) loadFFmpeg()
Mount ==
  /\ ~mounted
  /\ mounted' = TRUE
  /\ IF autoLoad
     THEN \E l \in Loads : NextLoad(l) /\ LoadFFmpegBegin(l)
     ELSE UNCHANGED <<hookLoading, engine, lpc, loadCalls, logListeners, progressListeners>>
  /\ UNCHANGED <<autoLoad, origin, appVars, runVars>>

\* a caller of the hook invokes the returned loadFFmpeg
CallLoadFFmpeg(l) ==
  /\ mounted
  /\ NextLoad(l)
  /\ LoadFFmpegBegin(l)
  /\ UNCHANGED <<mounted, autoLoad, origin, appVars, runVars>>

\* catch (error) { console.error(error) } finally { setLoading(false) }
LoadFFmpegFinally(l) ==
  /\ hookLoading' = FALSE
  /\ lpc' = [lpc EXCEPT ![l] = "done"]

\* await toBlobURL(coreURL, ...) resolves; toBlobURL(wasmURL, ...) is called
CoreURLResolves(l) ==
  /\ lpc[l] = "coreURL"
  /\ lpc' = [lpc EXCEPT ![l] = "wasmURL"]
  /\ UNCHANGED <<mounted, autoLoad, origin, hookLoading, engine, loadCalls, logListeners, progressListeners>>
  /\ UNCHANGED <<appVars, runVars>>

\* await toBlobURL(wasmURL, ...) resolves; ffmpeg.load is called
WasmURLResolves(l) ==
  /\ lpc[l] = "wasmURL"
  /\ lpc' = [lpc EXCEPT ![l] = "load"]
  /\ loadCalls' = loadCalls + 1
  /\ engine' = IF engine = "Ready" THEN "Ready" ELSE "Initializing"
  /\ UNCHANGED <<mounted, autoLoad, origin, hookLoading, logListeners, progressListeners>>
  /\ UNCHANGED <<appVars, runVars>>

\* either toBlobURL rejects (the fetch failed) before ffmpeg.load is called
ToBlobURLRejects(l) ==
  /\ lpc[l] \in {"coreURL", "wasmURL"}
  /\ LoadFFmpegFinally(l)
  /\ UNCHANGED <<mounted, autoLoad, origin, engine, loadCalls, logListeners, progressListeners>>
  /\ UNCHANGED <<appVars, runVars>>

\* await ffmpeg.load(...) resolves
LoadResolves(l) ==
  /\ lpc[l] = "load"
  /\ engine' = "Ready"
  /\ LoadFFmpegFinally(l)
  /\ UNCHANGED <<mounted, autoLoad, origin, loadCalls, logListeners, progressListeners>>
  /\ UNCHANGED <<appVars, runVars>>

\* await ffmpeg.load(...) rejects; an engine that was loaded before stays loaded
LoadRejects(l) ==
  /\ lpc[l] = "load"
  /\ engine' = IF engine = "Ready" THEN "Ready"
               ELSE IF \E k \in Loads \ {l} : lpc[k] = "load" THEN "Initializing"
               ELSE "Failed"
  /\ LoadFFmpegFinally(l)
  /\ UNCHANGED <<mounted, autoLoad, origin, loadCalls, logListeners, progressListeners>>
  /\ UNCHANGED <<appVars, runVars>>

\* ------------------------------------------------------------------ App
\* {!ffmpegLoading && (<div className="card"> ... )}
CardVisible == mounted /\ ~hookLoading

\* A plausible slip: the buttons are disabled only while no file is selected.
ButtonDisabledNoFileOnly == videoFile = NoFile

\* <button disabled={!videoFile || loading}>
ButtonDisabled == videoFile = NoFile \/ loading

\* <input type="file" disabled={loading}>, <textarea disabled={loading}>
InputDisabled == loading

\* handleFileChange with a file in e.target.files
HandleFileChange(f) ==
  /\ CardVisible
  /\ ~InputDisabled
  /\ videoFile' = f
  /\ outputUrl' = 0
  /\ message' = "fileSelected"
  /\ UNCHANGED <<lyrics, loading, hookVars, runVars>>

\* onChange={(e) => setLyrics(e.target.value)}
SetLyrics(t) ==
  /\ CardVisible
  /\ ~InputDisabled
  /\ t # lyrics
  /\ lyrics' = t
  /\ UNCHANGED <<videoFile, loading, message, outputUrl, hookVars, runVars>>

DotMp3 == <<".", "m", "p", "3">>

\* outputUrl.includes(".mp3"), for a non-null outputUrl
OutputIsMp3 == Includes(ObjectURL(outputUrl), DotMp3)

\* {outputUrl.includes(".mp3") ? <audio> : <img>}
RenderedAs == IF OutputIsMp3 THEN "audio" ELSE "img"

\* a.download = outputUrl.includes(".mp3") ? "output.mp3" : "output.gif"
DownloadName == IF OutputIsMp3 THEN "output.mp3" ELSE "output.gif"

\* handleDownload: the download button is rendered while outputUrl is set
HandleDownload ==
  /\ CardVisible
  /\ outputUrl # 0
  /\ message' = "fileDownloaded"
  /\ UNCHANGED <<videoFile, lyrics, loading, outputUrl, hookVars, runVars>>

\* the next handler invocation
NextRun(r) == pc[r] = "idle" /\ \A k \in Runs : k < r => pc[k] # "idle"

InFlight(r) == pc[r] \notin {"idle", "done"}

\* a click on an action button: the handler up to `await fetchFile(videoFile)`
HandlerBegin(r, p, busyMessage) ==
  /\ CardVisible
  /\ ~ButtonDisabled
  /\ NextRun(r)
  /\ IF videoFile = NoFile \/ hookLoading
     THEN /\ message' = "selectFileAndLoadFFmpeg"
          /\ UNCHANGED <<loading, runVars>>
     ELSE /\ loading' = TRUE
          /\ message' = busyMessage
          /\ pc' = [pc EXCEPT ![r] = "fetchFile"]
          /\ pipeline' = [pipeline EXCEPT ![r] = p]
          /\ runFile' = [runFile EXCEPT ![r] = videoFile]
          /\ runLyrics' = [runLyrics EXCEPT ![r] = IF p = "extract" THEN lyrics ELSE <<>>]
          /\ status' = [status EXCEPT ![r] = "running"]
          /\ UNCHANGED <<execArgs, exits, result, vfs>>
  /\ UNCHANGED <<videoFile, lyrics, outputUrl, hookVars>>

HandleExtractAudio(r) == HandlerBegin(r, "extract", "extractingCover")

HandleConvertToGif(r) == HandlerBegin(r, "gif", "convertingGif")

\* the awaits of a handler
AwaitPoints ==
  {"fetchFile", "writeFile", "exec1", "exec2", "execGif", "readFile",
   "deleteInput", "deleteOutput", "deleteCover"}

\* the awaits that are calls of the engine
EngineCalls == AwaitPoints \ {"fetchFile"}

\* A plausible slip: setLoading(false) at the end of the try block instead of
\* in a finally block, so that the catch block leaves loading true.
AwaitRejectsLeavesLoading(r) ==
  /\ pc[r] \in AwaitPoints
  /\ message' = (IF pipeline[r] = "extract" THEN "extractFailed" ELSE "gifFailed")
  /\ status' = [status EXCEPT ![r] = "failure"]
  /\ loading' = loading
  /\ pc' = [pc EXCEPT ![r] = "done"]
  /\ runLyrics' = [runLyrics EXCEPT ![r] = <<>>]
  /\ execArgs' = [execArgs EXCEPT ![r] = <<>>]
  /\ UNCHANGED <<videoFile, lyrics, outputUrl, hookVars>>
  /\ UNCHANGED <<pipeline, runFile, exits, result, vfs>>

\* the awaited call throws: catch { console.error; setMessage(failure) }
\* finally { setLoading(false) }
AwaitRejects(r) ==
  /\ pc[r] \in AwaitPoints
  /\ message' = (IF pipeline[r] = "extract" THEN "extractFailed" ELSE "gifFailed")
  /\ status' = [status EXCEPT ![r] = "failure"]
  /\ loading' = FALSE
  /\ pc' = [pc EXCEPT ![r] = "done"]
  /\ runLyrics' = [runLyrics EXCEPT ![r] = <<>>]
  /\ execArgs' = [execArgs EXCEPT ![r] = <<>>]
  /\ UNCHANGED <<videoFile, lyrics, outputUrl, hookVars>>
  /\ UNCHANGED <<pipeline, runFile, exits, result, vfs>>

\* await fetchFile(videoFile) resolves; ffmpeg.writeFile("input.mp4", ...) is called
FetchFileResolves(r) ==
  /\ pc[r] = "fetchFile"
  /\ pc' = [pc EXCEPT ![r] = "writeFile"]
  /\ UNCHANGED <<appVars, hookVars>>
  /\ UNCHANGED <<pipeline, runFile, runLyrics, execArgs, exits, result, status, vfs>>

\* await ffmpeg.writeFile resolves; the first ffmpeg.exec is called
WriteFileResolves(r) ==
  /\ pc[r] = "writeFile"
  /\ engine = "Ready"
  /\ vfs' = [vfs EXCEPT !["input.mp4"] = FileOf(r, "data", 0)]
  /\ IF pipeline[r] = "extract"
     THEN /\ message' = "extractingFrame"
          /\ execArgs' = [execArgs EXCEPT ![r] = CoverArgs]
          /\ pc' = [pc EXCEPT ![r] = "exec1"]
     ELSE /\ message' = message
          /\ execArgs' = [execArgs EXCEPT ![r] = GifArgs]
          /\ pc' = [pc EXCEPT ![r] = "execGif"]
  /\ UNCHANGED <<videoFile, lyrics, loading, outputUrl, hookVars>>
  /\ UNCHANGED <<pipeline, runFile, runLyrics, exits, result, status>>

\* the file an exec stage writes
ExecOutput(p) ==
  IF p = "exec1" THEN "cover.jpg" ELSE IF p = "exec2" THEN "output.mp3" ELSE "output.gif"

\* the files an exec stage reads
ExecInputs(p) == IF p = "exec2" THEN {"input.mp4", "cover.jpg"} ELSE {"input.mp4"}

\* A plausible slip: stage 2 is left out and the output is read after stage 1.
AfterExecSkipsStage2(p) == "readFile"

\* the await that follows an exec stage
AfterExec(p) == IF p = "exec1" THEN "exec2" ELSE "readFile"

\* await ffmpeg.exec resolves to an exit status, which the handler drops.
\* Exit status 0: the inputs were readable and the output was written.
\* Non-zero: the output is missing, left as it was, or left empty.
ExecResolves(r, code, left) ==
  /\ pc[r] \in {"exec1", "exec2", "execGif"}
  /\ engine = "Ready"
  /\ LET p == pc[r]
         out == ExecOutput(p)
         embedded == IF p = "exec2" THEN vfs["cover.jpg"].by ELSE 0
     IN /\ IF code = 0
           THEN /\ \A n \in ExecInputs(p) : vfs[n].bytes = "data"
                /\ left = "written"
                /\ vfs' = [vfs EXCEPT ![out] = FileOf(r, "data", embedded)]
           ELSE /\ left \in {"untouched", "empty"}
                /\ vfs' = IF left = "empty"
                          THEN [vfs EXCEPT ![out] = FileOf(r, "empty", 0)]
                          ELSE vfs
        /\ exits' = [exits EXCEPT ![r] = Append(@, code)]
        /\ IF p = "exec1"
           THEN /\ message' = "generatingMp3"
                /\ execArgs' = [execArgs EXCEPT ![r] = AudioArgs(runLyrics[r])]
           ELSE /\ message' = message
                /\ execArgs' = [execArgs EXCEPT ![r] = <<>>]
        /\ pc' = [pc EXCEPT ![r] = AfterExec(p)]
  /\ UNCHANGED <<videoFile, lyrics, loading, outputUrl, hookVars>>
  /\ UNCHANGED <<pipeline, runFile, runLyrics, result, status>>

\* the name the handler reads back
OutputName(r) == IF pipeline[r] = "extract" THEN "output.mp3" ELSE "output.gif"

\* { type: "audio/mp3" } / { type: "image/gif" }
MimeType(r) == IF pipeline[r] = "extract" THEN "audio/mp3" ELSE "image/gif"

\* await ffmpeg.readFile resolves: new Blob, URL.createObjectURL, setOutputUrl,
\* setMessage(success); ffmpeg.deleteFile("input.mp4") is called
ReadFileResolves(r) ==
  /\ pc[r] = "readFile"
  /\ engine = "Ready"
  /\ vfs[OutputName(r)] # Absent
  /\ LET data == vfs[OutputName(r)]
     IN result' = [result EXCEPT ![r] =
                     [mime |-> MimeType(r), bytes |-> data.bytes, by |-> data.by, cover |-> data.cover]]
  /\ outputUrl' = r
  /\ message' = (IF pipeline[r] = "extract" THEN "extractSucceeded" ELSE "gifSucceeded")
  /\ status' = [status EXCEPT ![r] = "success"]
  /\ pc' = [pc EXCEPT ![r] = "deleteInput"]
  /\ UNCHANGED <<videoFile, lyrics, loading, hookVars>>
  /\ UNCHANGED <<pipeline, runFile, runLyrics, execArgs, exits, vfs>>

\* the name a cleanup step deletes
DeleteName(r) ==
  IF pc[r] = "deleteInput" THEN "input.mp4"
  ELSE IF pc[r] = "deleteOutput" THEN OutputName(r)
  ELSE "cover.jpg"

\* what follows a cleanup step: the next deleteFile or the end of the try block
AfterDelete(r) ==
  IF pc[r] = "deleteInput" THEN "deleteOutput"
  ELSE IF pc[r] = "deleteOutput" /\ pipeline[r] = "extract" THEN "deleteCover"
  ELSE "done"

\* await ffmpeg.deleteFile resolves; after the last one: finally { setLoading(false) }
DeleteFileResolves(r) ==
  /\ pc[r] \in {"deleteInput", "deleteOutput", "deleteCover"}
  /\ engine = "Ready"
  /\ vfs[DeleteName(r)] # Absent
  /\ vfs' = [vfs EXCEPT ![DeleteName(r)] = Absent]
  /\ pc' = [pc EXCEPT ![r] = AfterDelete(r)]
  /\ loading' = IF AfterDelete(r) = "done" THEN FALSE ELSE loading
  /\ runLyrics' = IF AfterDelete(r) = "done" THEN [runLyrics EXCEPT ![r] = <<>>] ELSE runLyrics
  /\ UNCHANGED <<videoFile, lyrics, message, outputUrl, hookVars>>
  /\ UNCHANGED <<pipeline, runFile, execArgs, exits, result, status>>

\* -------------------------------------------------------- specifications
LoadStep ==
  \E l \in Loads :
    \/ CoreURLResolves(l)
    \/ WasmURLResolves(l)
    \/ ToBlobURLRejects(l)
    \/ LoadResolves(l)
    \/ LoadRejects(l)

ExecOutcomes == {<<0, "written">>, <<1, "untouched">>, <<1, "empty">>}

RunStep ==
  \E r \in Runs :
    \/ HandleExtractAudio(r)
    \/ HandleConvertToGif(r)
    \/ FetchFileResolves(r)
    \/ WriteFileResolves(r)
    \/ \E o \in ExecOutcomes : ExecResolves(r, o[1], o[2])
    \/ ReadFileResolves(r)
    \/ DeleteFileResolves(r)
    \/ AwaitRejects(r)

\* the App component: useLoadFFmpeg() with the default options
Next ==
  \/ Mount
  \/ LoadStep
  \/ \E f \in Files : HandleFileChange(f)
  \/ \E t \in LyricsInputs : SetLyrics(t)
  \/ HandleDownload
  \/ RunStep

Spec == Init /\ [][Next]_vars

\* the awaited call of run r settles: it resolves or it throws
Settles(r) ==
  \/ AwaitRejects(r)
  \/ FetchFileResolves(r)
  \/ WriteFileResolves(r)
  \/ \E o \in ExecOutcomes : ExecResolves(r, o[1], o[2])
  \/ ReadFileResolves(r)
  \/ DeleteFileResolves(r)

\* the App when every awaited call of a handler eventually settles
SpecFair == Init /\ [][Next]_vars /\ \A r \in Runs : WF_vars(Settles(r))

\* the hook on its own: either value of autoLoad, and callers of loadFFmpeg
InitHook ==
  /\ autoLoad \in BOOLEAN
  /\ origin = LocalOrigin
  /\ mounted = FALSE
  /\ hookLoading = FALSE
  /\ engine = "Uninitialized"
  /\ lpc = [l \in Loads |-> "idle"]
  /\ loadCalls = 0
  /\ logListeners = 0
  /\ progressListeners = 0
  /\ videoFile = NoFile
  /\ lyrics = DefaultLyrics
  /\ loading = FALSE
  /\ message = ""
  /\ outputUrl = 0
  /\ pc = [r \in Runs |-> "idle"]
  /\ pipeline = [r \in Runs |-> "none"]
  /\ runFile = [r \in Runs |-> NoFile]
  /\ runLyrics = [r \in Runs |-> <<>>]
  /\ execArgs = [r \in Runs |-> <<>>]
  /\ exits = [r \in Runs |-> <<>>]
  /\ result = [r \in Runs |-> NoBlob]
  /\ status = [r \in Runs |-> "none"]
  /\ vfs = [n \in FileNames |-> Absent]

NextHook ==
  \/ Mount
  \/ \E l \in Loads : CallLoadFFmpeg(l)
  \/ LoadStep

SpecHook == InitHook /\ [][NextHook]_vars

\* the escaping and the argument builder on their own: a handleExtractAudio
\* invocation waiting for stage 1, with any text typed into the textarea
InitEsc ==
  /\ lyrics \in EscTexts
  /\ origin = LocalOrigin
  /\ mounted = TRUE
  /\ autoLoad = TRUE
  /\ hookLoading = FALSE
  /\ engine = "Ready"
  /\ lpc = [l \in Loads |-> IF l = 1 THEN "done" ELSE "idle"]
  /\ loadCalls = 1
  /\ logListeners = 1
  /\ progressListeners = 1
  /\ videoFile = "a.mp4"
  /\ loading = TRUE
  /\ message = "extractingFrame"
  /\ outputUrl = 0
  /\ pc = [r \in Runs |-> IF r = 1 THEN "exec1" ELSE "idle"]
  /\ pipeline = [r \in Runs |-> IF r = 1 THEN "extract" ELSE "none"]
  /\ runFile = [r \in Runs |-> IF r = 1 THEN "a.mp4" ELSE NoFile]
  /\ runLyrics = [r \in Runs |-> IF r = 1 THEN lyrics ELSE <<>>]
  /\ execArgs = [r \in Runs |-> IF r = 1 THEN CoverArgs ELSE <<>>]
  /\ exits = [r \in Runs |-> <<>>]
  /\ result = [r \in Runs |-> NoBlob]
  /\ status = [r \in Runs |-> IF r = 1 THEN "running" ELSE "none"]
  /\ vfs = [n \in FileNames |-> IF n = "input.mp4" THEN FileOf(1, "data", 0) ELSE Absent]

NextEsc == \E o \in ExecOutcomes : ExecResolves(1, o[1], o[2])

SpecEsc == InitEsc /\ [][NextEsc]_vars

\* ------------------------------------------------------------------ claims
\* the artifacts of run r that are in the virtual filesystem
Staged(r) == {n \in FileNames : vfs[n].by = r}

\* C1: after a run has settled, on any outcome, none of the artifacts it
\* staged remains in the virtual filesystem.
C1_NoArtifactAfterRun == \A r \in Runs : pc[r] = "done" => Staged(r) = {}

\* C2: a run calls writeFile("input.mp4") only when the engine load has
\* completed successfully.
C2_StagingOnlyWhenReady == \A r \in Runs : pc[r] = "writeFile" => engine = "Ready"

\* C3: overlapping loadFFmpeg invocations share one ffmpeg.load acquisition:
\* no two ffmpeg.load calls are ever in flight together.
C3_SingleAcquisition == Cardinality({l \in Loads : lpc[l] = "load"}) <= 1

\* C4: at most one run is active against the engine at any time.
C4_AtMostOneRun == Cardinality({r \in Runs : InFlight(r)}) <= 1

\* a run is at an engine call after an earlier run has settled, and the
\* action buttons are disabled meanwhile
C4_Witness ==
  \E r1, r2 \in Runs :
    /\ pc[r1] = "done"
    /\ pc[r2] \in EngineCalls
    /\ videoFile # NoFile
    /\ ButtonDisabled

\* <div className="loaded-status">{!ffmpegLoading ? loaded : loading}</div>
LoadedStatusShown == mounted /\ ~hookLoading

\* C5: once the engine load has failed, the hook never reports the engine
\* as loaded.
C5_LoadFailureSurfaced == engine = "Failed" => ~LoadedStatusShown

\* C6: in the extract-audio run, stage 2 and the read of output.mp3 start
\* only if stage 1 completed with exit status 0.
C6_Stage2OnlyAfterStage1 ==
  \A r \in Runs :
    (pipeline[r] = "extract" /\ pc[r] \in {"exec2", "readFile"}) => exits[r][1] = 0

\* every exec stage of run r completed with exit status 0
ExecsSucceeded(r) == \A i \in 1..Len(exits[r]) : exits[r][i] = 0

\* C7: a run whose exec stages and read succeeded and whose output resource
\* was created reports success, even when a later deleteFile throws.
C7_CleanupNeverChangesOutcome ==
  \A r \in Runs :
    (pc[r] = "done" /\ result[r] # NoBlob /\ ExecsSucceeded(r)) => status[r] = "success"

\* C8: a settled run either reports success with a result of non-empty bytes
\* whose MIME type matches the pipeline, or reports a failure.
C8_SuccessOrFailure ==
  \A r \in Runs :
    pc[r] = "done" =>
      \/ status[r] = "failure"
      \/ status[r] = "success" /\ result[r].bytes = "data" /\ result[r].mime = MimeType(r)

\* the positions of the `${key}=${value}` arguments
MetaArgs(a) == {i \in 1..Len(a) : a[i].kind = "meta"}

\* C9: for lyrics that contain a quote and a newline, unescaping the value of
\* each metadata argument gives back the text that was escaped.
C9_EscapeRoundTrip ==
  \A r \in Runs :
    (pc[r] = "exec2" /\ QUOTE \in Range(Trim(runLyrics[r])) /\ NL \in Range(Trim(runLyrics[r]))) =>
      \A i \in MetaArgs(execArgs[r]) :
        UnescapeLyrics(execArgs[r][i].value) = Trim(runLyrics[r])

\* the stage-2 list a has the attached-picture disposition, and the lyrics as
\* exactly two -metadata arguments, LYRICS and USLT with one value, iff the
\* lyrics lyr are not empty after trimming
Stage2Shape(a, lyr) ==
  /\ \E i \in 1..(Len(a) - 1) : a[i] = Lit("-disposition:v:1") /\ a[i + 1] = Lit("attached_pic")
  /\ IF Trim(lyr) # <<>>
     THEN \E i, j \in 2..Len(a) :
            /\ MetaArgs(a) = {i, j}
            /\ i # j
            /\ a[i].text = "LYRICS"
            /\ a[j].text = "USLT"
            /\ a[i].value = a[j].value
            /\ a[i - 1] = Lit("-metadata")
            /\ a[j - 1] = Lit("-metadata")
            /\ Cardinality({k \in 1..Len(a) : a[k] = Lit("-metadata")}) = 2
     ELSE /\ MetaArgs(a) = {}
          /\ \A k \in 1..Len(a) : a[k] # Lit("-metadata")

\* C10 as stated: ... and for the lyrics of scenario B both metadata
\* arguments contain hello\nworld (backslash, n).
C10_Stage2ArgsAsStated ==
  \A r \in Runs :
    pc[r] = "exec2" =>
      /\ Stage2Shape(execArgs[r], runLyrics[r])
      /\ runLyrics[r] = ScenarioBLyrics =>
           \A i \in MetaArgs(execArgs[r]) :
             Includes(execArgs[r][i].value, Hello \o <<BSL, "n">> \o World)

\* C10 amended: ... and for the lyrics of scenario B both metadata arguments
\* are the text with its newline replaced by backslash-n and its time tags
\* kept: they contain hello\n[00:05.00]world.
C10_Stage2Args ==
  \A r \in Runs :
    pc[r] = "exec2" =>
      /\ Stage2Shape(execArgs[r], runLyrics[r])
      /\ runLyrics[r] = ScenarioBLyrics =>
           \A i \in MetaArgs(execArgs[r]) :
             /\ Includes(execArgs[r][i].value, Hello \o <<BSL, "n">> \o Stamp("0", "5") \o World)
             /\ NL \notin Range(execArgs[r][i].value)

\* stage 2 is pending with the lyrics of scenario B
C10_Witness ==
  \E r \in Runs :
    /\ pc[r] = "exec2"
    /\ runLyrics[r] = ScenarioBLyrics
    /\ Cardinality(MetaArgs(execArgs[r])) = 2

\* a is followed by b somewhere in the argument list args
HasPair(args, a, b) ==
  \E i \in 1..(Len(args) - 1) : args[i] = Lit(a) /\ args[i + 1] = Lit(b)

\* the cover arguments: the image as second input, the attached-picture disposition
HasCoverInput(args) == HasPair(args, "-i", "cover.jpg")
HasCoverDisposition(args) == HasPair(args, "-disposition:v:1", "attached_pic")

\* no `${key}=${value}` argument and no -metadata flag
NoLyricsArgs(args) ==
  /\ MetaArgs(args) = {}
  /\ \A k \in 1..Len(args) : args[k] # Lit("-metadata")

\* run r is a handleExtractAudio invocation whose lyrics are empty after trimming
NoLyricsRun(r) == pipeline[r] = "extract" /\ InFlight(r) /\ Trim(runLyrics[r]) = <<>>

\* the pending exec of run r is the one that writes output.mp3
WritesMp3(r) == execArgs[r] # <<>> /\ execArgs[r][Len(execArgs[r])] = Lit("output.mp3")

\* C11 as stated: an extract-audio run with no lyrics builds its MP3 command
\* without cover arguments and without lyrics metadata arguments, and its
\* result has MIME type audio/mp3.
C11_NoCoverNoLyricsAsStated ==
  \A r \in Runs :
    NoLyricsRun(r) =>
      /\ WritesMp3(r) =>
           /\ ~HasCoverInput(execArgs[r])
           /\ ~HasCoverDisposition(execArgs[r])
           /\ NoLyricsArgs(execArgs[r])
      /\ result[r] # NoBlob => result[r].mime = "audio/mp3"

\* C11 amended: an extract-audio run with no lyrics builds its MP3 command
\* without lyrics metadata arguments but with the cover arguments, and its
\* result has MIME type audio/mp3.
C11_NoLyricsArgs ==
  \A r \in Runs :
    NoLyricsRun(r) =>
      /\ WritesMp3(r) =>
           /\ HasCoverInput(execArgs[r])
           /\ HasCoverDisposition(execArgs[r])
           /\ NoLyricsArgs(execArgs[r])
      /\ result[r] # NoBlob => result[r].mime = "audio/mp3"

\* the MP3 command of a run with whitespace-only lyrics is pending
C11_Witness == \E r \in Runs : NoLyricsRun(r) /\ WritesMp3(r) /\ pc[r] = "exec2"

\* the order of the awaited calls of a handler: <<c, d>> when d is issued
\* once c has settled
CallOrder(p) ==
  IF p = "extract"
  THEN { <<"idle", "fetchFile">>, <<"fetchFile", "writeFile">>, <<"writeFile", "exec1">>,
         <<"exec1", "exec2">>, <<"exec2", "readFile">>, <<"readFile", "deleteInput">>,
         <<"deleteInput", "deleteOutput">>, <<"deleteOutput", "deleteCover">>,
         <<"deleteCover", "done">> }
  ELSE { <<"idle", "fetchFile">>, <<"fetchFile", "writeFile">>, <<"writeFile", "execGif">>,
         <<"execGif", "readFile">>, <<"readFile", "deleteInput">>,
         <<"deleteInput", "deleteOutput">>, <<"deleteOutput", "done">> }

\* C12: within a run the calls are issued in strict sequence, staging, the
\* exec stages, the read, the deletes: a call is issued only by the step in
\* which the previous one settles (or the run ends in its catch block), and
\* the output resource is created only by the step in which the read settles.
C12_StrictSequence ==
  [][\A r \in Runs :
       /\ pc'[r] # pc[r] =>
            \/ <<pc[r], pc'[r]>> \in CallOrder(pipeline'[r])
            \/ pc[r] \in AwaitPoints /\ pc'[r] = "done" /\ status'[r] = "failure"
       /\ result'[r] # result[r] => pc[r] = "readFile" /\ pc'[r] = "deleteInput"
       /\ (pc[r] = "readFile" /\ pc'[r] = "deleteInput") => result'[r] # NoBlob]_vars

\* an extract-audio run has gone through every call and waits for its last delete
C12_Witness ==
  \E r \in Runs :
    /\ pipeline[r] = "extract"
    /\ pc[r] = "deleteCover"
    /\ Len(exits[r]) = 2
    /\ result[r] # NoBlob

\* the number of ffmpeg.exec calls run r has issued so far
ExecsIssued(r) == Len(exits[r]) + (IF pc[r] \in {"exec1", "exec2", "execGif"} THEN 1 ELSE 0)

\* C13: a handleConvertToGif run issues exactly one exec; its arguments read
\* input.mp4, take 5 seconds from offset 0, resample to 10 frames per second,
\* scale to width 320 with proportional height, and write output.gif.
C13_GifCommand ==
  \A r \in Runs :
    pipeline[r] = "gif" =>
      /\ ExecsIssued(r) <= 1
      /\ pc[r] \in {"readFile", "deleteInput", "deleteOutput"} => ExecsIssued(r) = 1
      /\ result[r] # NoBlob => ExecsIssued(r) = 1
      /\ (pc[r] = "execGif" \/ execArgs[r] # <<>>) =>
           /\ pc[r] = "execGif"
           /\ HasPair(execArgs[r], "-i", "input.mp4")
           /\ HasPair(execArgs[r], "-t", "5.0")
           /\ HasPair(execArgs[r], "-ss", "0.0")
           /\ HasPair(execArgs[r], "-vf", "fps=10,scale=320:-1")
           /\ execArgs[r][Len(execArgs[r])] = Lit("output.gif")
           /\ Cardinality({k \in 1..Len(execArgs[r]) : execArgs[r][k] = Lit("-i")}) = 1
           /\ MetaArgs(execArgs[r]) = {}

\* the exec of a handleConvertToGif run is pending
C13_Witness == \E r \in Runs : pipeline[r] = "gif" /\ pc[r] = "execGif" /\ execArgs[r] # <<>>

\* C14: the bytes a run materializes were written by that run's own exec
\* stage, and the cover embedded in them by that run's own stage 1: no run
\* reads or embeds an artifact written by an earlier run.
C14_OwnArtifactsOnly ==
  \A r \in Runs :
    result[r] # NoBlob => result[r].by = r /\ result[r].cover \in {0, r}

\* C15: the output is rendered and named after the pipeline that produced
\* it: audio and output.mp3 after handleExtractAudio, an image and output.gif
\* after handleConvertToGif.
C15_PresentationMatchesPipeline ==
  outputUrl # 0 =>
    /\ pipeline[outputUrl] = "extract" => RenderedAs = "audio" /\ DownloadName = "output.mp3"
    /\ pipeline[outputUrl] = "gif" => RenderedAs = "img" /\ DownloadName = "output.gif"

\* C16: loading is true exactly while a run is between its guard and its
\* settling, and every run that has started eventually leaves loading false.
C16_LoadingFlag ==
  /\ [](loading <=> \E r \in Runs : InFlight(r))
  /\ (\E r \in Runs : InFlight(r)) ~> ~loading

\* one run has settled in its catch block, one on the success path, and
\* loading is false
C16_Witness ==
  /\ ~loading
  /\ \E r1, r2 \in Runs :
       /\ pc[r1] = "done" /\ status[r1] = "failure"
       /\ pc[r2] = "done" /\ status[r2] = "success"

\* the latest run that has settled, 0 when none has
LastSettled ==
  IF \E r \in Runs : pc[r] = "done"
  THEN CHOOSE r \in Runs : pc[r] = "done" /\ \A k \in Runs : pc[k] = "done" => k <= r
  ELSE 0

\* C17: whenever no run is in flight and outputUrl is non-null, outputUrl is
\* the output of the most recent run, and that run was on the currently
\* selected file; an earlier run's output is never left displayed.
C17_OutputIsCurrent ==
  (outputUrl # 0 /\ ~loading) =>
     /\ outputUrl = LastSettled
     /\ runFile[outputUrl] = videoFile

\* the hook's loadFFmpeg has been invoked at least once
LoadInvoked == \E l \in Loads : lpc[l] # "idle"

\* C18: after any number of loadFFmpeg invocations exactly one log listener
\* and exactly one progress listener are registered on the engine.
C18_OneListenerEach == LoadInvoked => (logListeners = 1 /\ progressListeners = 1)

\* a loadFFmpeg invocation is between setLoading(true) and its finally block
LoadInFlight(l) == lpc[l] \in {"coreURL", "wasmURL", "load"}

\* C19: the mount starts exactly one load when autoLoad is true and none when
\* it is false, no load exists before the mount, and the hook's loading flag
\* is true exactly while a load is in flight.
C19_AutoLoadAndFlag ==
  /\ [][(~mounted /\ mounted') =>
          IF autoLoad
          THEN Cardinality({l \in Loads : lpc'[l] # "idle"}) = 1
          ELSE lpc' = lpc]_vars
  /\ [](~mounted => \A l \in Loads : lpc[l] = "idle")
  /\ [](hookLoading <=> \E l \in Loads : LoadInFlight(l))

====
